---- MODULE Spec2Model ----
(***************************************************************************)
(* Verification model of two simulation engines of interactive-archive:    *)
(*   - AvatarNetworkApp (growth network): createBranch, branchOut,         *)
(*     updateBranches, update, setupScene                                  *)
(*   - RainApp (particle field + lightning): resetParticle,                *)
(*     triggerLightning, update, updateMousePosition, animate/start/stop   *)
(* and of three page components:                                           *)
(*   - VideoPuzzleApp, swap variant: handleTileClick, swap, shuffle, solve *)
(*   - VideoPuzzleApp, sliding variant: handleTileClick, shuffle, solve    *)
(*   - InteractionManager: setupEventListeners, the handlers, dispose      *)
(*                                                                         *)
(* Numbers are fixed-point integers.  Lengths and positions are in units   *)
(* of 0.01, times in units of 0.01 s, velocities in units of 0.01 per      *)
(* second, lightning intensity in units of 0.01.                           *)
(***************************************************************************)
EXTENDS Integers, Sequences, FiniteSets, TLC

VARIABLES
    \* ---- AvatarNetworkApp ----
    branches,        \* this.branches : Branch[]
    branchLines,     \* this.branchLines.children : one tube mesh per createBranch
    elapsedTime,     \* this.elapsedTime
    spawnLog,        \* history: per segment, what branchOut did for it
    parentOf,        \* history: per segment, index of the spawning segment (0 = seed)
    dropped,         \* history: createBranch calls rejected by the cap in the last operation
    \* ---- RainApp ----
    positions,       \* geometry.attributes.position : per particle <<x, y, z>>
    velocities,      \* this.velocities : per particle <<vx, vy, vz>>
    mouseWorldPos,   \* this.mouseWorldPos
    lightningTimer,  \* this.lightningTimer
    lightningIntensity, \* this.lightningIntensity
    drawRange,       \* lightningBolt.geometry.drawRange.count
    opacity,         \* lightningMaterial.opacity
    clockDelta,      \* environment: what clock.getDelta() reports for a frame
    rainLog,         \* history of the last RainApp.update call
    bolt,            \* the polyline a triggerLightning call is building
    loop,            \* this.animationId and the browser's pending animation frames
    \* ---- page components ----
    swap,            \* VideoPuzzleApp (swap variant) and its success message
    slide,           \* VideoPuzzleApp (sliding variant)
    input            \* InteractionManager and its container's listeners

avatarVars == <<branches, branchLines, elapsedTime, spawnLog, parentOf, dropped>>
rainVars == <<positions, velocities, mouseWorldPos, lightningTimer,
              lightningIntensity, drawRange, opacity, clockDelta, rainLog, bolt, loop>>
pageVars == <<swap, slide, input>>
vars == <<avatarVars, rainVars, pageVars>>

\* The state of an application that has not been constructed.
AvatarIdle ==
    /\ branches = <<>>
    /\ branchLines = <<>>
    /\ elapsedTime = 0
    /\ spawnLog = <<>>
    /\ parentOf = <<>>
    /\ dropped = 0

SceneIdle ==
    /\ positions = <<>>
    /\ velocities = <<>>
    /\ mouseWorldPos = <<0, 0, 0>>
    /\ lightningTimer = 0
    /\ lightningIntensity = 0
    /\ drawRange = 0
    /\ opacity = 0
    /\ clockDelta = 0
    /\ rainLog = <<>>

RainIdle ==
    /\ SceneIdle
    /\ bolt = <<>>
    /\ loop = <<>>

PagesIdle ==
    /\ swap = <<>>
    /\ slide = <<>>
    /\ input = <<>>

(***************************************************************************)
(* Shared arithmetic                                                       *)
(***************************************************************************)
Max(a, b) == IF a >= b THEN a ELSE b
Min(a, b) == IF a <= b THEN a ELSE b
Abs(a) == IF a >= 0 THEN a ELSE -a

\* Quotient rounded toward zero (the fixed-point image of a float product/quotient).
Trunc(a, b) == IF a >= 0 THEN a \div b ELSE -((-a) \div b)

(***************************************************************************)
(* AvatarNetworkApp                                                        *)
(***************************************************************************)

\* Model cap on the number of segments; stands for MAX_BRANCHES (3000 in the code).
MAX_BRANCHES == 5
\* Model generation limit; stands for the literal 25 in branchOut.
MAX_GENERATION == 2
\* Upper limit on simulated time (0.01 s); Update is disabled beyond it.
MaxTime == 150

BRANCH_LENGTH == 600
GROWTH_SPEED == 12
TUBE_RADIUS == 1200

\* Frame deltas handed to update (0.01 s): a 0.25 s frame and a 0.5 s stall.
AvatarDeltas == {25, 50}
\* Seed points of setupScene (the code lists nine; the model keeps the first).
startPoints == << <<0, 0, 0>> >>
\* numBranchesPerPoint drawn in setupScene (the code draws 4..7).
SeedCounts == {1, 2}
\* Deflection angles drawn in branchOut, in quarter turns (within [-PI/2, PI/2]).
Angles == {-1, 1}
\* numNewBranches drawn in branchOut: 2 + floor(random * 4).
NewBranchCounts == {2, 3, 4, 5}

\* Vector3.applyAxisAngle(zAxis, angle) followed by z = 0 and normalize(),
\* for directions on the axes and angles in quarter turns.
Rotate(d, q) ==
    IF q = 0 THEN d
    ELSE IF q = 1 THEN <<-d[2], d[1], 0>>
    ELSE <<d[2], -d[1], 0>>

\* direction of seed i of n: angle = (i / n) * 2 PI (jitter 0), for n in {1, 2, 4}.
SeedDirection(i, n) ==
    LET q == (4 \div n) * i
    IN  IF q = 0 THEN <<1, 0, 0>>
        ELSE IF q = 1 THEN <<0, 1, 0>>
        ELSE IF q = 2 THEN <<-1, 0, 0>>
        ELSE <<0, -1, 0>>

\* start + direction * length
PointAt(start, direction, length) ==
    <<start[1] + direction[1] * length,
      start[2] + direction[2] * length,
      start[3] + direction[3] * length>>

\* BRANCH_LENGTH * (1 - generation * 0.05), floored at 0.5
TargetLength(generation) ==
    Max(BRANCH_LENGTH - Trunc(BRANCH_LENGTH * generation * 5, 100), 50)

\* hue = 0.5 + (generation * 0.05) % 0.3, in units of 0.001
Hue(generation) == 500 + ((generation * 50) % 300)

\* TUBE_RADIUS * (1 - generation * 0.06), in units of 0.0001
TubeRadius(generation) == Trunc(TUBE_RADIUS * (100 - 6 * generation), 100)

\* The part of the application state the growth operations read and write.
AvatarState(br, ln, calls, par, drp) ==
    [branches |-> br, branchLines |-> ln, spawnLog |-> calls,
     parentOf |-> par, dropped |-> drp]

EmptyAvatar == AvatarState(<<>>, <<>>, <<>>, <<>>, 0)

\* spawnLog entries: calls counts the branchOut invocations for the segment;
\* outcome is "none" before the first, then "generation" (returned at the
\* generation guard) or "draw" (went on to the random draws).
NotSpawned == [calls |-> 0, outcome |-> "none"]
Logged(entry, outcome) == [calls |-> entry.calls + 1, outcome |-> outcome]

\* Mutant: the cap test is off by one (> instead of >=).
createBranchCapOffByOne(s, start, direction, generation, parent) ==
    IF Len(s.branches) > MAX_BRANCHES
    THEN [s EXCEPT !.dropped = @ + 1]
    ELSE [s EXCEPT
            !.branches = Append(@,
                [start |-> start, end |-> start, direction |-> direction,
                 age |-> 0, generation |-> generation, isGrowing |-> TRUE,
                 length |-> 0, targetLength |-> TargetLength(generation),
                 hue |-> Hue(generation)]),
            !.branchLines = Append(@, [tubularSegments |-> 2, radius |-> TUBE_RADIUS]),
            !.spawnLog = Append(@, NotSpawned),
            !.parentOf = Append(@, parent)]

\* Mutant: the mesh is added before the cap is tested.
createBranchMeshFirst(s, start, direction, generation, parent) ==
    IF Len(s.branches) >= MAX_BRANCHES
    THEN [s EXCEPT !.dropped = @ + 1,
                   !.branchLines = Append(@, [tubularSegments |-> 2, radius |-> TUBE_RADIUS])]
    ELSE [s EXCEPT
            !.branches = Append(@,
                [start |-> start, end |-> start, direction |-> direction,
                 age |-> 0, generation |-> generation, isGrowing |-> TRUE,
                 length |-> 0, targetLength |-> TargetLength(generation),
                 hue |-> Hue(generation)]),
            !.branchLines = Append(@, [tubularSegments |-> 2, radius |-> TUBE_RADIUS]),
            !.spawnLog = Append(@, NotSpawned),
            !.parentOf = Append(@, parent)]

\* createBranch(start, direction, generation); parent only feeds the history.
createBranch(s, start, direction, generation, parent) ==
    IF Len(s.branches) >= MAX_BRANCHES
    THEN [s EXCEPT !.dropped = @ + 1]
    ELSE [s EXCEPT
            !.branches = Append(@,
                [start |-> start, end |-> start, direction |-> direction,
                 age |-> 0, generation |-> generation, isGrowing |-> TRUE,
                 length |-> 0, targetLength |-> TargetLength(generation),
                 hue |-> Hue(generation)]),
            !.branchLines = Append(@, [tubularSegments |-> 2, radius |-> TUBE_RADIUS]),
            !.spawnLog = Append(@, NotSpawned),
            !.parentOf = Append(@, parent)]

\* Mutant: the children get their parent's generation.
RECURSIVE spawnChildrenSameGeneration(_, _, _)
spawnChildrenSameGeneration(S, index, k) ==
    IF k = 0 THEN S
    ELSE spawnChildrenSameGeneration(
            { createBranch(s, s.branches[index].end,
                           Rotate(s.branches[index].direction, a),
                           s.branches[index].generation, index)
              : s \in S, a \in Angles },
            index, k - 1)

\* The loop of branchOut: k more children of segment index, from each state of S.
RECURSIVE spawnChildren(_, _, _)
spawnChildren(S, index, k) ==
    IF k = 0 THEN S
    ELSE spawnChildren(
            { createBranch(s, s.branches[index].end,
                           Rotate(s.branches[index].direction, a),
                           s.branches[index].generation + 1, index)
              : s \in S, a \in Angles },
            index, k - 1)

\* Mutant: the generation guard is missing.
branchOutNoGenerationGuard(s, index) ==
    LET called == [s EXCEPT !.spawnLog[index] = Logged(@, "draw")]
    IN  {called} \cup UNION { spawnChildren({called}, index, n) : n \in NewBranchCounts }

\* branchOut(branch): the set of states it can leave, over its random draws.
branchOut(s, index) ==
    IF s.branches[index].generation >= MAX_GENERATION
    THEN { [s EXCEPT !.spawnLog[index] = Logged(@, "generation")] }
    ELSE LET called == [s EXCEPT !.spawnLog[index] = Logged(@, "draw")]
         IN  {called}   \* Math.random() > BRANCH_PROBABILITY
             \cup UNION { spawnChildren({called}, index, n) : n \in NewBranchCounts }

\* The rebuilt tube of a growing segment.
RebuiltMesh(branch) ==
    [tubularSegments |-> Max(2, (branch.length * 4) \div 100),
     radius |-> TubeRadius(branch.generation)]

\* Mutant: the length is not clamped to targetLength on completion.
visitBranchNoClamp(s, index, delta) ==
    LET b == s.branches[index]
        grown == b.length + GROWTH_SPEED * delta
        done == grown >= b.targetLength
        b1 == IF done
              THEN [b EXCEPT !.length = grown, !.isGrowing = FALSE]
              ELSE [b EXCEPT !.length = grown]
        s1 == [s EXCEPT !.branches[index] = b1]
        afterSpawn == IF ~b.isGrowing THEN {s}
                      ELSE IF done THEN branchOut(s1, index)
                      ELSE {s1}
    IN  { LET c == t.branches[index]
              c1 == IF b.isGrowing
                    THEN [c EXCEPT !.end = PointAt(c.start, c.direction, c.length)]
                    ELSE c
              c2 == [c1 EXCEPT !.age = @ + delta]
          IN  [t EXCEPT
                 !.branches[index] = c2,
                 !.branchLines[index] = IF b.isGrowing THEN RebuiltMesh(c1) ELSE @]
          : t \in afterSpawn }

\* Mutant: isGrowing is not cleared on completion.
visitBranchKeepsGrowing(s, index, delta) ==
    LET b == s.branches[index]
        grown == b.length + GROWTH_SPEED * delta
        done == grown >= b.targetLength
        b1 == IF done
              THEN [b EXCEPT !.length = b.targetLength]
              ELSE [b EXCEPT !.length = grown]
        s1 == [s EXCEPT !.branches[index] = b1]
        afterSpawn == IF ~b.isGrowing THEN {s}
                      ELSE IF done THEN branchOut(s1, index)
                      ELSE {s1}
    IN  { LET c == t.branches[index]
              c1 == IF b.isGrowing
                    THEN [c EXCEPT !.end = PointAt(c.start, c.direction, c.length)]
                    ELSE c
              c2 == [c1 EXCEPT !.age = @ + delta]
          IN  [t EXCEPT
                 !.branches[index] = c2,
                 !.branchLines[index] = IF b.isGrowing THEN RebuiltMesh(c1) ELSE @]
          : t \in afterSpawn }

\* Mutant: a growing segment's length does not advance.
visitBranchStalls(s, index, delta) ==
    LET b == s.branches[index]
        grown == b.length
        done == grown >= b.targetLength
        b1 == IF done
              THEN [b EXCEPT !.length = b.targetLength, !.isGrowing = FALSE]
              ELSE [b EXCEPT !.length = grown]
        s1 == [s EXCEPT !.branches[index] = b1]
        afterSpawn == IF ~b.isGrowing THEN {s}
                      ELSE IF done THEN branchOut(s1, index)
                      ELSE {s1}
    IN  { LET c == t.branches[index]
              c1 == IF b.isGrowing
                    THEN [c EXCEPT !.end = PointAt(c.start, c.direction, c.length)]
                    ELSE c
              c2 == [c1 EXCEPT !.age = @ + delta]
          IN  [t EXCEPT
                 !.branches[index] = c2,
                 !.branchLines[index] = IF b.isGrowing THEN RebuiltMesh(c1) ELSE @]
          : t \in afterSpawn }

\* Mutant: the length of every visited segment advances with its age.
visitBranchAgesLength(s, index, delta) ==
    LET b == s.branches[index]
        grown == b.length + GROWTH_SPEED * delta
        done == grown >= b.targetLength
        b1 == IF done
              THEN [b EXCEPT !.length = b.targetLength, !.isGrowing = FALSE]
              ELSE [b EXCEPT !.length = grown]
        s1 == [s EXCEPT !.branches[index] = b1]
        afterSpawn == IF ~b.isGrowing THEN {s}
                      ELSE IF done THEN branchOut(s1, index)
                      ELSE {s1}
    IN  { LET c == t.branches[index]
              c1 == IF b.isGrowing
                    THEN [c EXCEPT !.end = PointAt(c.start, c.direction, c.length)]
                    ELSE c
              c2 == [c1 EXCEPT !.age = @ + delta, !.length = @ + delta]
          IN  [t EXCEPT
                 !.branches[index] = c2,
                 !.branchLines[index] = IF b.isGrowing THEN RebuiltMesh(c1) ELSE @]
          : t \in afterSpawn }

\* Body of the forEach callback of updateBranches for the segment at index.
visitBranch(s, index, delta) ==
    LET b == s.branches[index]
        grown == b.length + GROWTH_SPEED * delta
        done == grown >= b.targetLength
        b1 == IF done
              THEN [b EXCEPT !.length = b.targetLength, !.isGrowing = FALSE]
              ELSE [b EXCEPT !.length = grown]
        s1 == [s EXCEPT !.branches[index] = b1]
        afterSpawn == IF ~b.isGrowing THEN {s}
                      ELSE IF done THEN branchOut(s1, index)
                      ELSE {s1}
    IN  { LET c == t.branches[index]
              c1 == IF b.isGrowing
                    THEN [c EXCEPT !.end = PointAt(c.start, c.direction, c.length)]
                    ELSE c
              c2 == [c1 EXCEPT !.age = @ + delta]
          IN  [t EXCEPT
                 !.branches[index] = c2,
                 !.branchLines[index] = IF b.isGrowing THEN RebuiltMesh(c1) ELSE @]
          : t \in afterSpawn }

\* Mutant: the loop also visits the segments appended while it runs.
RECURSIVE forEachBranchVisitsNew(_, _, _, _)
forEachBranchVisitsNew(S, i, n, delta) ==
    UNION { IF i > Len(s.branches) THEN {s}
            ELSE forEachBranchVisitsNew(visitBranch(s, i, delta), i + 1, n, delta)
            : s \in S }

\* this.branches.forEach: indices i..n, n being the length when the loop began.
RECURSIVE forEachBranch(_, _, _, _)
forEachBranch(S, i, n, delta) ==
    IF i > n THEN S
    ELSE forEachBranch(UNION { visitBranch(s, i, delta) : s \in S }, i + 1, n, delta)

updateBranches(s, delta) ==
    forEachBranch({[s EXCEPT !.dropped = 0]}, 1, Len(s.branches), delta)

\* The seed loop of setupScene for start point p: seeds i..n-1.
RECURSIVE seedPoint(_, _, _, _)
seedPoint(s, p, i, n) ==
    IF i >= n THEN s
    ELSE seedPoint(createBranch(s, startPoints[p], SeedDirection(i, n), 0, 0), p, i + 1, n)

RECURSIVE seedFrom(_, _)
seedFrom(S, p) ==
    IF p > Len(startPoints) THEN S
    ELSE seedFrom({ seedPoint(s, p, 0, n) : s \in S, n \in SeedCounts }, p + 1)

setupScene == seedFrom({EmptyAvatar}, 1)

CurrentAvatar == AvatarState(branches, branchLines, spawnLog, parentOf, dropped)

SetAvatar(s) ==
    /\ branches' = s.branches
    /\ branchLines' = s.branchLines
    /\ spawnLog' = s.spawnLog
    /\ parentOf' = s.parentOf
    /\ dropped' = s.dropped

AvatarInit ==
    /\ \E s \in setupScene :
          /\ branches = s.branches
          /\ branchLines = s.branchLines
          /\ spawnLog = s.spawnLog
          /\ parentOf = s.parentOf
          /\ dropped = s.dropped
    /\ elapsedTime = 0
    /\ RainIdle
    /\ PagesIdle

\* AvatarNetworkApp.update(delta), as called by animate
AvatarUpdate(delta) ==
    /\ elapsedTime + delta <= MaxTime
    /\ elapsedTime' = elapsedTime + delta
    /\ \E s \in updateBranches(CurrentAvatar, delta) : SetAvatar(s)
    /\ UNCHANGED rainVars
    /\ UNCHANGED pageVars

AvatarNext == \E delta \in AvatarDeltas : AvatarUpdate(delta)

AvatarSpec == AvatarInit /\ [][AvatarNext]_vars

\* the literal 25 of branchOut: the highest generation a segment can have
GENERATION_LIMIT == 25

\* The tube rebuild as a function of the generation: one growing segment, of
\* any generation branchOut can give a segment, created by createBranch.
TubeInit ==
    /\ \E g \in 0..GENERATION_LIMIT, i \in 0..3 :
          LET s == createBranch(EmptyAvatar, startPoints[1], SeedDirection(i, 4), g, 0)
          IN  /\ branches = s.branches
              /\ branchLines = s.branchLines
              /\ spawnLog = s.spawnLog
              /\ parentOf = s.parentOf
              /\ dropped = s.dropped
    /\ elapsedTime = 0
    /\ RainIdle
    /\ PagesIdle

TubeNext == \E delta \in AvatarDeltas : AvatarUpdate(delta)

TubeSpec == TubeInit /\ [][TubeNext]_vars

\* Simulated time (0.01 s) within which every generation 0..MAX_GENERATION can
\* complete: a segment is first visited in the frame after the one that created
\* it and needs at most two frames (0.25 s + 0.5 s) to reach its target length.
GrowthHorizon == (MAX_GENERATION + 1) * 75

\* AvatarNetworkApp.update(delta), for runs followed up to GrowthHorizon
AvatarGrow(delta) ==
    /\ elapsedTime + delta <= GrowthHorizon
    /\ elapsedTime' = elapsedTime + delta
    /\ \E s \in updateBranches(CurrentAvatar, delta) : SetAvatar(s)
    /\ UNCHANGED rainVars
    /\ UNCHANGED pageVars

AvatarGrowNext == \E delta \in AvatarDeltas : AvatarGrow(delta)

\* What a frame does to the clock: every step of AvatarGrowNext is one of these.
AvatarFrame ==
    \E delta \in AvatarDeltas :
       elapsedTime + delta <= GrowthHorizon /\ elapsedTime' = elapsedTime + delta

\* requestAnimationFrame keeps calling animate: a frame that can run does run.
AvatarGrowSpec == AvatarInit /\ [][AvatarGrowNext]_vars /\ WF_elapsedTime(AvatarFrame)

(***************************************************************************)
(* RainApp                                                                 *)
(***************************************************************************)

\* Model number of particles; stands for PARTICLE_COUNT (10000 in the code).
PARTICLE_COUNT == 1
\* Upper limit on the number of frames of a run; animate is disabled beyond it.
MaxFrames == 32

RAIN_RANGE_X == 4000
RAIN_RANGE_Y == 3000
RAIN_RANGE_Z == 1000
GRAVITY == 5
UMBRELLA_RADIUS == 300
BOUNCE_FORCE == 50
\* the 0.05 added to pushOut
PUSH_MARGIN == 5
\* fade-out speed of the lightning (delta * 3.0)
FADE_SPEED == 3
\* segments of the bolt in triggerLightning
BOLT_SEGMENTS == 20

\* Components of a unit normal are kept in units of 1/NormalScale, and the
\* distance to the pointer in units of 1/DistScale of a position unit.
NormalScale == 100 * 100
DistScale == 10 * 10

\* Frame times the host's clock reports (0.01 s); a run keeps one frame time.
ClockDeltas == {5, 40}
\* the cap on delta in animate: Math.min(clock.getDelta(), 0.1)
DELTA_CAP == 10
\* (Math.random() - 0.5) * RAIN_RANGE_X
ResetXs == {0, 150}
\* (Math.random() - 0.5) * RAIN_RANGE_Z
ResetZs == {0, 100}
\* -(Math.random() * 5 + 5)
ResetVys == {-900}
\* (Math.random() - 0.5) * RAIN_RANGE_Y, the initial spread
InitialYs == {-(RAIN_RANGE_Y \div 2), 1000}
\* Math.random() * 3 + 1, the first lightning interval
FirstIntervals == {100}
\* Mutant: the lightning is rearmed with 0.2 s.
RearmIntervalsShort == {20}
\* Math.random() * 5 + 2, the later lightning intervals
RearmIntervals == {200}
\* world positions the pointer is projected to (plane z = 0)
MousePositions == {<<0, 1000, 0>>, <<0, 1400, 0>>, <<100, -1450, 0>>}
\* new THREE.Vector3(9999, 9999, 0)
FarAway == <<999900, 999900, 0>>

Particles == 1..PARTICLE_COUNT

\* floor(sqrt(n)) by bisection: lo * lo <= n < hi * hi
RECURSIVE SqrtBetween(_, _, _)
SqrtBetween(n, lo, hi) ==
    IF hi - lo <= 1 THEN lo
    ELSE LET mid == (lo + hi) \div 2
         IN  IF mid * mid <= n THEN SqrtBetween(n, mid, hi) ELSE SqrtBetween(n, lo, mid)

\* Math.sqrt on squared distances below radiusSq, in units of 1/DistScale
Sqrt(n) == SqrtBetween(n, 0, UMBRELLA_RADIUS * DistScale + 1)

\* distSq < radiusSq (the squares are only formed when every offset is below the radius)
InsideUmbrella(dx, dy, dz) ==
    /\ Abs(dx) < UMBRELLA_RADIUS /\ Abs(dy) < UMBRELLA_RADIUS /\ Abs(dz) < UMBRELLA_RADIUS
    /\ dx * dx + dy * dy + dz * dz < UMBRELLA_RADIUS * UMBRELLA_RADIUS

\* Mutant: the position correction is left out.
pushOutNone(dist) == 0

\* pushOut = UMBRELLA_RADIUS - dist + 0.05, in units of 1/DistScale
pushOut(dist) == UMBRELLA_RADIUS * DistScale - dist + PUSH_MARGIN * DistScale

\* Mutant: the whole sphere reflects, not only its upper half.
collideFullSphere(p, v, m) ==
    LET dx == p[1] - m[1]
        dy == p[2] - m[2]
        dz == p[3] - m[3]
    IN  IF ~InsideUmbrella(dx, dy, dz)
        THEN [pos |-> p, vel |-> v, reflected |-> FALSE]
        ELSE
        LET dist == Sqrt((dx * dx + dy * dy + dz * dz) * DistScale * DistScale)
        IN  \* dist = 0: the normal is NaN and "ny > 0" is false
            IF dist = 0
            THEN [pos |-> p, vel |-> v, reflected |-> FALSE]
            ELSE
            LET nx == Trunc(dx * DistScale * NormalScale, dist)
                ny == Trunc(dy * DistScale * NormalScale, dist)
                nz == Trunc(dz * DistScale * NormalScale, dist)
                dotN == v[1] * nx + v[2] * ny + v[3] * nz
                dot == Trunc(dotN, NormalScale)
                po == pushOut(dist)
            IN  IF dotN < 0
                THEN [pos |-> <<p[1] + Trunc(nx * po, NormalScale * DistScale),
                                p[2] + Trunc(ny * po, NormalScale * DistScale),
                                p[3] + Trunc(nz * po, NormalScale * DistScale)>>,
                      vel |-> <<v[1] - Trunc(2 * dot * nx, NormalScale)
                                     + Trunc(nx * BOUNCE_FORCE, NormalScale),
                                v[2] - Trunc(2 * dot * ny, NormalScale)
                                     + Trunc(ny * BOUNCE_FORCE, NormalScale),
                                v[3] - Trunc(2 * dot * nz, NormalScale)
                                     + Trunc(nz * BOUNCE_FORCE, NormalScale)>>,
                      reflected |-> TRUE]
                ELSE [pos |-> p, vel |-> v, reflected |-> FALSE]

\* Mutant: at distance 0 the particle is reflected straight up.
collideZeroUpward(p, v, m) ==
    LET dx == p[1] - m[1]
        dy == p[2] - m[2]
        dz == p[3] - m[3]
    IN  IF ~InsideUmbrella(dx, dy, dz)
        THEN [pos |-> p, vel |-> v, reflected |-> FALSE]
        ELSE
        LET dist == Sqrt((dx * dx + dy * dy + dz * dz) * DistScale * DistScale)
        IN  \* dist = 0: the normal is NaN and "ny > 0" is false
            IF dist = 0
            THEN [pos |-> <<p[1], p[2] + UMBRELLA_RADIUS + PUSH_MARGIN, p[3]>>,
                  vel |-> <<v[1], BOUNCE_FORCE - v[2], v[3]>>, reflected |-> TRUE]
            ELSE
            LET nx == Trunc(dx * DistScale * NormalScale, dist)
                ny == Trunc(dy * DistScale * NormalScale, dist)
                nz == Trunc(dz * DistScale * NormalScale, dist)
                dotN == v[1] * nx + v[2] * ny + v[3] * nz
                dot == Trunc(dotN, NormalScale)
                po == pushOut(dist)
            IN  IF ny > 0 /\ dotN < 0
                THEN [pos |-> <<p[1] + Trunc(nx * po, NormalScale * DistScale),
                                p[2] + Trunc(ny * po, NormalScale * DistScale),
                                p[3] + Trunc(nz * po, NormalScale * DistScale)>>,
                      vel |-> <<v[1] - Trunc(2 * dot * nx, NormalScale)
                                     + Trunc(nx * BOUNCE_FORCE, NormalScale),
                                v[2] - Trunc(2 * dot * ny, NormalScale)
                                     + Trunc(ny * BOUNCE_FORCE, NormalScale),
                                v[3] - Trunc(2 * dot * nz, NormalScale)
                                     + Trunc(nz * BOUNCE_FORCE, NormalScale)>>,
                      reflected |-> TRUE]
                ELSE [pos |-> p, vel |-> v, reflected |-> FALSE]

\* The collision block of update for one particle, after gravity:
\* p = <<x, y, z>>, v = <<vx, vy, vz>>, m = mouseWorldPos.
collide(p, v, m) ==
    LET dx == p[1] - m[1]
        dy == p[2] - m[2]
        dz == p[3] - m[3]
    IN  IF ~InsideUmbrella(dx, dy, dz)
        THEN [pos |-> p, vel |-> v, reflected |-> FALSE]
        ELSE
        LET dist == Sqrt((dx * dx + dy * dy + dz * dz) * DistScale * DistScale)
        IN  \* dist = 0: the normal is NaN and "ny > 0" is false
            IF dist = 0
            THEN [pos |-> p, vel |-> v, reflected |-> FALSE]
            ELSE
            LET nx == Trunc(dx * DistScale * NormalScale, dist)
                ny == Trunc(dy * DistScale * NormalScale, dist)
                nz == Trunc(dz * DistScale * NormalScale, dist)
                dotN == v[1] * nx + v[2] * ny + v[3] * nz
                dot == Trunc(dotN, NormalScale)
                po == pushOut(dist)
            IN  IF ny > 0 /\ dotN < 0
                THEN [pos |-> <<p[1] + Trunc(nx * po, NormalScale * DistScale),
                                p[2] + Trunc(ny * po, NormalScale * DistScale),
                                p[3] + Trunc(nz * po, NormalScale * DistScale)>>,
                      vel |-> <<v[1] - Trunc(2 * dot * nx, NormalScale)
                                     + Trunc(nx * BOUNCE_FORCE, NormalScale),
                                v[2] - Trunc(2 * dot * ny, NormalScale)
                                     + Trunc(ny * BOUNCE_FORCE, NormalScale),
                                v[3] - Trunc(2 * dot * nz, NormalScale)
                                     + Trunc(nz * BOUNCE_FORCE, NormalScale)>>,
                      reflected |-> TRUE]
                ELSE [pos |-> p, vel |-> v, reflected |-> FALSE]

\* Mutant: a recycled particle restarts at RAIN_RANGE_Y instead of RAIN_RANGE_Y / 2.
resetParticleTooHigh(initial) ==
    { [pos |-> <<x, y, z>>, vel |-> <<0, vy, 0>>] :
        x \in ResetXs,
        y \in IF initial THEN InitialYs ELSE {RAIN_RANGE_Y},
        z \in ResetZs,
        vy \in ResetVys }

\* Mutant: a reset particle keeps a sideways velocity.
resetParticleDrifts(initial) ==
    { [pos |-> <<x, y, z>>, vel |-> <<50, vy, 0>>] :
        x \in ResetXs,
        y \in IF initial THEN InitialYs ELSE {RAIN_RANGE_Y \div 2},
        z \in ResetZs,
        vy \in ResetVys }

\* resetParticle(positions, index, initial): the values it can write
resetParticle(initial) ==
    { [pos |-> <<x, y, z>>, vel |-> <<0, vy, 0>>] :
        x \in ResetXs,
        y \in IF initial THEN InitialYs ELSE {RAIN_RANGE_Y \div 2},
        z \in ResetZs,
        vy \in ResetVys }

\* Mutant: the floor test uses the full range instead of half of it.
belowFloorFullRange(y) == y < -RAIN_RANGE_Y

\* y < -RAIN_RANGE_Y / 2
belowFloor(y) == y < -(RAIN_RANGE_Y \div 2)

\* Mutant: the drag factor is above 1.
dragAmplifies(v) == Trunc(v * 101, 100)

\* vx *= 0.99 (and vz)
drag(v) == Trunc(v * 99, 100)

\* x += vx * delta
advance(x, v, delta) == x + Trunc(v * delta, 100)

\* Mutant: the position is integrated with the velocity of the previous call.
stepParticleOldVelocity(p, v, m, delta) ==
    LET vy == v[2] - GRAVITY * delta
        c == collide(p, <<v[1], vy, v[3]>>, m)
        vx1 == drag(c.vel[1])
        vy1 == c.vel[2]
        vz1 == drag(c.vel[3])
        x1 == advance(c.pos[1], v[1], delta)
        y1 == advance(c.pos[2], v[2], delta)
        z1 == advance(c.pos[3], v[3], delta)
    IN  IF belowFloor(y1)
        THEN { [pos |-> r.pos, vel |-> r.vel, reflected |-> c.reflected, recycled |-> TRUE]
               : r \in resetParticle(FALSE) }
        ELSE { [pos |-> <<x1, y1, z1>>, vel |-> <<vx1, vy1, vz1>>,
                reflected |-> c.reflected, recycled |-> FALSE] }

\* The loop body of update for one particle: the values stored back, over the
\* random draws of resetParticle.
stepParticle(p, v, m, delta) ==
    LET vy == v[2] - GRAVITY * delta
        c == collide(p, <<v[1], vy, v[3]>>, m)
        vx1 == drag(c.vel[1])
        vy1 == c.vel[2]
        vz1 == drag(c.vel[3])
        x1 == advance(c.pos[1], vx1, delta)
        y1 == advance(c.pos[2], vy1, delta)
        z1 == advance(c.pos[3], vz1, delta)
    IN  IF belowFloor(y1)
        THEN { [pos |-> r.pos, vel |-> r.vel, reflected |-> c.reflected, recycled |-> TRUE]
               : r \in resetParticle(FALSE) }
        ELSE { [pos |-> <<x1, y1, z1>>, vel |-> <<vx1, vy1, vz1>>,
                reflected |-> c.reflected, recycled |-> FALSE] }

\* triggerLightning: the draw range it sets, validPoints / 3 = segments + 1
triggerLightning == BOLT_SEGMENTS + 1

\* Mutant: the fade uses delta instead of delta * 3.0.
fadeSlow(intensity, delta) == Max(intensity - delta, 0)

\* lightningIntensity -= delta * 3.0, clamped at 0
fade(intensity, delta) == Max(intensity - delta * FADE_SPEED, 0)

\* Mutant: the bolt is never hidden.
hideBoltNever(intensity, range) == range

\* the draw range after the fade step: kept while intensity > 0 on entry to the
\* step, collapsed by setDrawRange(0, 0) otherwise
hideBolt(intensity, range) == IF intensity > 0 THEN range ELSE 0

\* Mutant: the countdown is paused while a discharge is fading.
lightningStepPausedWhileFading(delta) ==
    LET timer == IF lightningIntensity > 0 THEN lightningTimer ELSE lightningTimer - delta
        fired == timer <= 0
        intensity == IF fired THEN 100 ELSE lightningIntensity
        range == IF fired THEN triggerLightning ELSE drawRange
    IN  /\ IF fired
           THEN \E t \in RearmIntervals : lightningTimer' = t
           ELSE lightningTimer' = timer
        /\ lightningIntensity' = IF intensity > 0 THEN fade(intensity, delta) ELSE intensity
        /\ opacity' = IF intensity > 0 THEN fade(intensity, delta) ELSE opacity
        /\ drawRange' = hideBolt(intensity, range)

\* The lightning block of update.
lightningStep(delta) ==
    LET timer == lightningTimer - delta
        fired == timer <= 0
        intensity == IF fired THEN 100 ELSE lightningIntensity
        range == IF fired THEN triggerLightning ELSE drawRange
    IN  /\ IF fired
           THEN \E t \in RearmIntervals : lightningTimer' = t
           ELSE lightningTimer' = timer
        /\ lightningIntensity' = IF intensity > 0 THEN fade(intensity, delta) ELSE intensity
        /\ opacity' = IF intensity > 0 THEN fade(intensity, delta) ELSE opacity
        /\ drawRange' = hideBolt(intensity, range)

\* RainApp.update(delta)
RainUpdate(delta) ==
    /\ rainLog.updates < MaxFrames
    /\ lightningStep(delta)
    /\ \E out \in [Particles -> UNION { stepParticle(positions[i], velocities[i],
                                                     mouseWorldPos, delta)
                                        : i \in Particles }] :
          /\ \A i \in Particles :
                out[i] \in stepParticle(positions[i], velocities[i], mouseWorldPos, delta)
          /\ positions' = [i \in Particles |-> out[i].pos]
          /\ velocities' = [i \in Particles |-> out[i].vel]
          /\ rainLog' = [updates |-> rainLog.updates + 1,
                         delta |-> delta,
                         fired |-> lightningTimer - delta <= 0,
                         fires |-> rainLog.fires + (IF lightningTimer - delta <= 0 THEN 1 ELSE 0),
                         entryIntensity |-> lightningIntensity,
                         pointer |-> mouseWorldPos,
                         reflected |-> [i \in Particles |-> out[i].reflected],
                         recycled |-> [i \in Particles |-> out[i].recycled],
                         deflected |-> [i \in Particles |->
                             IF out[i].recycled THEN FALSE
                             ELSE rainLog.deflected[i] \/ out[i].reflected]]
    /\ UNCHANGED <<mouseWorldPos, clockDelta, bolt>>
    /\ UNCHANGED avatarVars
    /\ UNCHANGED pageVars

\* Mutant: the frame time is passed on as reported.
clampDeltaNone(reported) == reported

\* Math.min(this.clock.getDelta(), 0.1)
clampDelta(reported) == Min(reported, DELTA_CAP)

\* RainApp.animate: one frame
RainAnimate == RainUpdate(clampDelta(clockDelta)) /\ UNCHANGED loop

\* updateMousePosition(clientX, clientY): the pointer projected on the plane z = 0
updateMousePosition(target) ==
    /\ mouseWorldPos # target
    /\ mouseWorldPos' = target
    /\ UNCHANGED <<positions, velocities, lightningTimer, lightningIntensity,
                   drawRange, opacity, clockDelta, rainLog, bolt, loop>>
    /\ UNCHANGED avatarVars
    /\ UNCHANGED pageVars

RainInit ==
    /\ \E init \in [Particles -> resetParticle(TRUE)] :
          /\ positions = [i \in Particles |-> init[i].pos]
          /\ velocities = [i \in Particles |-> init[i].vel]
    /\ mouseWorldPos = FarAway
    /\ lightningTimer \in FirstIntervals
    /\ lightningIntensity = 0
    /\ drawRange = 0
    /\ opacity = 0
    /\ clockDelta \in ClockDeltas
    /\ rainLog = [updates |-> 0, delta |-> 0, fired |-> FALSE, fires |-> 0, entryIntensity |-> 0,
                  pointer |-> FarAway,
                  reflected |-> [i \in Particles |-> FALSE],
                  recycled |-> [i \in Particles |-> FALSE],
                  deflected |-> [i \in Particles |-> FALSE]]
    /\ bolt = <<>>
    /\ loop = <<>>
    /\ AvatarIdle
    /\ PagesIdle

RainNext ==
    \/ RainAnimate
    \/ \E target \in MousePositions : updateMousePosition(target)

RainSpec == RainInit /\ [][RainNext]_vars

\* Inputs of the free-fall law: a particle at rest in y at the top of the
\* range, with or without a sideways velocity.
FallStarts ==
    { [pos |-> <<x, RAIN_RANGE_Y \div 2, z>>, vel |-> <<vx, 0, 0>>] :
        x \in ResetXs, z \in ResetZs, vx \in {0, 200} }

\* The particle field started from FallStarts, the pointer never moved.
FallScene ==
    /\ \E init \in [Particles -> FallStarts] :
          /\ positions = [i \in Particles |-> init[i].pos]
          /\ velocities = [i \in Particles |-> init[i].vel]
    /\ mouseWorldPos = FarAway
    /\ lightningTimer \in FirstIntervals
    /\ lightningIntensity = 0
    /\ drawRange = 0
    /\ opacity = 0
    /\ clockDelta \in ClockDeltas
    /\ rainLog = [updates |-> 0, delta |-> 0, fired |-> FALSE, fires |-> 0, entryIntensity |-> 0,
                  pointer |-> FarAway,
                  reflected |-> [i \in Particles |-> FALSE],
                  recycled |-> [i \in Particles |-> FALSE],
                  deflected |-> [i \in Particles |-> FALSE]]
    /\ bolt = <<>>

FallInit ==
    /\ FallScene
    /\ loop = <<>>
    /\ AvatarIdle
    /\ PagesIdle

FallNext == RainAnimate

FallSpec == FallInit /\ [][FallNext]_vars

(***************************************************************************)
(* RainApp.animate / start / stop against the browser's animation frames.  *)
(* loop.animationId is this.animationId (0 for null), loop.pending the ids *)
(* of the requested frames that have neither run nor been cancelled,       *)
(* loop.nextId the id the next requestAnimationFrame returns; loop.stopped *)
(* records that stop() was the last of start() and stop() to return.       *)
(***************************************************************************)
MaxRequests == 6

\* this.animationId = requestAnimationFrame(this.animate.bind(this)),
\* then update(Math.min(clock.getDelta(), 0.1)) and the render.
animate ==
    /\ loop.nextId <= MaxRequests
    /\ RainUpdate(clampDelta(clockDelta))

requested(pending) ==
    [loop EXCEPT !.animationId = loop.nextId,
                 !.pending = pending \cup {loop.nextId},
                 !.nextId = @ + 1]

\* start() { this.animate(); }
start ==
    /\ animate
    /\ loop' = [requested(loop.pending) EXCEPT !.stopped = FALSE]

\* The browser runs a pending frame callback.
frame(id) ==
    /\ id \in loop.pending
    /\ animate
    /\ loop' = requested(loop.pending \ {id})

\* stop(): cancels the frame this.animationId names, if any.
stop ==
    /\ loop' = [loop EXCEPT !.pending = IF loop.animationId # 0
                                         THEN @ \ {loop.animationId} ELSE @,
                             !.animationId = 0,
                             !.stopped = TRUE]
    /\ UNCHANGED <<positions, velocities, mouseWorldPos, lightningTimer, lightningIntensity,
                   drawRange, opacity, clockDelta, rainLog, bolt>>
    /\ UNCHANGED avatarVars
    /\ UNCHANGED pageVars

LoopInit ==
    /\ FallScene
    /\ loop = [animationId |-> 0, pending |-> {}, nextId |-> 1, stopped |-> FALSE]
    /\ AvatarIdle
    /\ PagesIdle

LoopNext ==
    \/ start
    \/ stop
    \/ \E id \in 1..MaxRequests : frame(id)

LoopSpec == LoopInit /\ [][LoopNext]_vars

(***************************************************************************)
(* RainApp.triggerLightning, one loop iteration at a time.  x and y are in *)
(* units of 0.01.                                                          *)
(***************************************************************************)
BOLT_RANGE_X == 2000
BOLT_START_Y == 1500
BOLT_END_Y == -1500
DRIFT_LIMIT == 500
BOLT_BUFFER == 50

\* (Math.random() - 0.5) * rangeX lies in [-10, 10)
BoltStartXs == {-(BOLT_RANGE_X \div 2), 0, BOLT_RANGE_X \div 2 - 1}
\* (Math.random() - 0.5) * 2.0 lies in [-1, 1)
XOffsets == {-100, 0, 99}

stepY == (BOLT_START_Y - BOLT_END_Y) \div BOLT_SEGMENTS

pullBackNever(currentX, startX) == currentX

\* if (Math.abs(currentX - startX) > 5) currentX += (startX - currentX) * 0.5
pullBack(currentX, startX) ==
    IF Abs(currentX - startX) > DRIFT_LIMIT
    THEN currentX + Trunc(startX - currentX, 2)
    ELSE currentX

\* The locals of a call after points.push(startX, startY, 0); stored is the
\* draw range the call has set (0 while the loop runs).
boltStart(startX) ==
    [startX |-> startX, currentX |-> startX, currentY |-> BOLT_START_Y,
     points |-> 1, i |-> 0, pulled |-> FALSE, stored |-> 0]

\* One iteration of the segment loop.
boltSegment ==
    /\ bolt.stored = 0
    /\ bolt.i < BOLT_SEGMENTS
    /\ \E xOffset \in XOffsets :
          LET moved == bolt.currentX + xOffset
          IN  bolt' = [bolt EXCEPT !.currentY = @ - stepY,
                                   !.currentX = pullBack(moved, bolt.startX),
                                   !.pulled = Abs(moved - bolt.startX) > DRIFT_LIMIT,
                                   !.points = @ + 1,
                                   !.i = @ + 1]
    /\ UNCHANGED <<positions, velocities, mouseWorldPos, lightningTimer, lightningIntensity,
                   drawRange, opacity, clockDelta, rainLog, loop>>
    /\ UNCHANGED avatarVars
    /\ UNCHANGED pageVars

\* The copy into the position buffer and setDrawRange(0, validPoints / 3).
boltStore ==
    /\ bolt.stored = 0
    /\ bolt.i = BOLT_SEGMENTS
    /\ bolt' = [bolt EXCEPT !.stored = bolt.points]
    /\ UNCHANGED <<positions, velocities, mouseWorldPos, lightningTimer, lightningIntensity,
                   drawRange, opacity, clockDelta, rainLog, loop>>
    /\ UNCHANGED avatarVars
    /\ UNCHANGED pageVars

BoltInit ==
    /\ \E startX \in BoltStartXs : bolt = boltStart(startX)
    /\ loop = <<>>
    /\ SceneIdle
    /\ AvatarIdle
    /\ PagesIdle

BoltNext ==
    \/ boltSegment
    \/ boltStore

BoltSpec == BoltInit /\ [][BoltNext]_vars

(***************************************************************************)
(* VideoPuzzleApp, swap variant.  Grid positions and pieces are numbered   *)
(* from 1; swap.tiles[position] is the originalIndex of the piece there,   *)
(* swap.selectedIndex is 0 for null, swap.message is whether the success   *)
(* message is displayed, swap.loaded whether createTiles has run, and      *)
(* swap.awaiting / swap.at are the suspended shuffle() and its loop index. *)
(***************************************************************************)
SWAP_ROWS == 2
SWAP_COLS == 2
SWAP_ITERATIONS == 3

swapTotalTiles == SWAP_ROWS * SWAP_COLS
SwapCells == 1..swapTotalTiles

Sorted(tiles) == [i \in DOMAIN tiles |-> i]
Exchanged(tiles, idx1, idx2) ==
    [tiles EXCEPT ![idx1] = tiles[idx2], ![idx2] = tiles[idx1]]
\* tiles.findIndex(t => t.originalIndex === originalIndex)
FindIndex(tiles, originalIndex) ==
    CHOOSE position \in DOMAIN tiles : tiles[position] = originalIndex

\* checkSolved(): msg.style.display = isSolved ? 'block' : 'none'
swapCheckSolved(s) == [s EXCEPT !.message = (s.tiles = Sorted(s.tiles))]

\* swap(idx1, idx2) with the canvases present
swapSwap(s, idx1, idx2) ==
    LET t == [s EXCEPT !.tiles = Exchanged(s.tiles, idx1, idx2)]
    IN  IF ~t.isShuffling THEN swapCheckSolved(t) ELSE t

\* swap(idx1, idx2) before createTiles: the array is exchanged and
\* updateTilePosition(undefined, idx1) throws.
swapSwapThrows(s, idx1, idx2) == [s EXCEPT !.tiles = Exchanged(s.tiles, idx1, idx2)]

\* The shuffle loop from iteration first up to its next await, its end, or
\* the exception that ends it: iterations that draw idx1 = idx2 fall through.
swapShuffleLoop(s, first) ==
    { [s EXCEPT !.isShuffling = FALSE, !.awaiting = FALSE, !.at = 0] }
    \cup
    { IF s.loaded
      THEN [swapSwap(s, idx1, idx2) EXCEPT !.awaiting = TRUE, !.at = i + 1]
      ELSE [swapSwapThrows(s, idx1, idx2) EXCEPT !.awaiting = FALSE, !.at = 0] :
        i \in first..(SWAP_ITERATIONS - 1),
        <<idx1, idx2>> \in { pair \in SwapCells \X SwapCells : pair[1] # pair[2] } }

swapFrame == UNCHANGED <<avatarVars, rainVars, slide, input>>

\* 'loadedmetadata': handleVideoLoad, createTiles
swapHandleVideoLoad ==
    /\ ~swap.loaded
    /\ swap' = [swap EXCEPT !.loaded = TRUE]
    /\ swapFrame

\* mousedown on the canvas of piece originalIndex
swapHandleTileClick(originalIndex) ==
    /\ swap.loaded
    /\ LET currentPos == FindIndex(swap.tiles, originalIndex)
       IN  swap' =
             IF swap.isShuffling THEN swap
             ELSE IF swap.selectedIndex = 0
                  THEN [swap EXCEPT !.selectedIndex = currentPos]
             ELSE IF swap.selectedIndex = currentPos
                  THEN [swap EXCEPT !.selectedIndex = 0]
             ELSE [swapSwap(swap, swap.selectedIndex, currentPos)
                     EXCEPT !.selectedIndex = 0]
    /\ swapFrame

\* shuffle-btn: shuffle() up to its first await
swapShuffle ==
    /\ IF swap.isShuffling
       THEN swap' = swap
       ELSE \E s \in swapShuffleLoop([swap EXCEPT !.isShuffling = TRUE,
                                                  !.message = FALSE,
                                                  !.selectedIndex = 0], 0) :
               swap' = s
    /\ swapFrame

\* the 50 ms timer of a suspended shuffle() fires
swapShuffleResume ==
    /\ swap.awaiting
    /\ \E s \in swapShuffleLoop(swap, swap.at) : swap' = s
    /\ swapFrame

\* solve-btn: solve(); before createTiles updateTilePosition throws after
\* the sort and before checkSolved.
swapSolve ==
    /\ LET t == [swap EXCEPT !.selectedIndex = 0, !.tiles = Sorted(swap.tiles)]
       IN  swap' = IF swap.loaded THEN swapCheckSolved(t) ELSE t
    /\ swapFrame

\* The page's markup is not part of the sources: the message may start
\* displayed or hidden.
SwapInit ==
    /\ \E shown \in BOOLEAN :
          swap = [tiles |-> [i \in SwapCells |-> i], isShuffling |-> FALSE,
                  selectedIndex |-> 0, message |-> shown, loaded |-> FALSE,
                  awaiting |-> FALSE, at |-> 0]
    /\ slide = <<>>
    /\ input = <<>>
    /\ AvatarIdle
    /\ RainIdle

SwapNext ==
    \/ swapHandleVideoLoad
    \/ \E originalIndex \in SwapCells : swapHandleTileClick(originalIndex)
    \/ swapShuffle
    \/ swapShuffleResume
    \/ swapSolve

SwapSpec == SwapInit /\ [][SwapNext]_vars

(***************************************************************************)
(* VideoPuzzleApp, sliding variant.  Grid positions and pieces are         *)
(* numbered from 1, the empty piece is slideTotalTiles; slide.tiles,       *)
(* slide.loaded, slide.awaiting and slide.at are as in the swap variant;   *)
(* slide.click records what the last mousedown handler saw and did.        *)
(***************************************************************************)
SLIDE_ROWS == 2
SLIDE_COLS == 3
SLIDE_ITERATIONS == 3

slideTotalTiles == SLIDE_ROWS * SLIDE_COLS
SlideCells == 1..slideTotalTiles

Row(position) == (position - 1) \div SLIDE_COLS
Col(position) == (position - 1) % SLIDE_COLS

isAdjacent(idx1, idx2) == Abs(Row(idx1) - Row(idx2)) + Abs(Col(idx1) - Col(idx2)) = 1

\* The neighbours shuffle() collects for the empty cell.
neighbors(emptyIndex) ==
    (IF Row(emptyIndex) > 0 THEN {emptyIndex - SLIDE_COLS} ELSE {})
    \cup (IF Row(emptyIndex) < SLIDE_ROWS - 1 THEN {emptyIndex + SLIDE_COLS} ELSE {})
    \cup (IF Col(emptyIndex) > 0 THEN {emptyIndex - 1} ELSE {})
    \cup (IF Col(emptyIndex) < SLIDE_COLS - 1 THEN {emptyIndex + 1} ELSE {})

NoClick == [changed |-> FALSE, shuffling |-> FALSE, clicked |-> 0, empty |-> 0]

\* swap(idx1, idx2) followed by the caller's this.emptyIndex = moved.  Before
\* createTiles there is no canvas: updateTilePosition throws after the array
\* was exchanged, and the caller's assignment is not reached.
slideSwap(s, idx1, idx2, moved) ==
    IF s.loaded
    THEN [s EXCEPT !.tiles = Exchanged(s.tiles, idx1, idx2), !.emptyIndex = moved]
    ELSE [s EXCEPT !.tiles = Exchanged(s.tiles, idx1, idx2)]

\* One iteration of the shuffle loop, up to its await or its exception.
slideShuffleStep(s) ==
    { IF s.loaded
      THEN [slideSwap(s, s.emptyIndex, next, next) EXCEPT !.awaiting = TRUE, !.at = @ + 1]
      ELSE [slideSwap(s, s.emptyIndex, next, next) EXCEPT !.awaiting = FALSE] :
        next \in neighbors(s.emptyIndex) }

slideFrame == UNCHANGED <<avatarVars, rainVars, swap, input>>

\* 'loadedmetadata': handleVideoLoad, createTiles
slideHandleVideoLoad ==
    /\ ~slide.loaded
    /\ slide' = [slide EXCEPT !.loaded = TRUE, !.click = NoClick]
    /\ slideFrame

\* mousedown on the canvas of piece originalIndex (the empty piece has none)
slideHandleTileClick(originalIndex) ==
    /\ slide.loaded
    /\ originalIndex # slideTotalTiles
    /\ LET currentPos == FindIndex(slide.tiles, originalIndex)
           after == IF slide.isShuffling THEN slide
                    ELSE IF isAdjacent(currentPos, slide.emptyIndex)
                         THEN slideSwap(slide, currentPos, slide.emptyIndex, currentPos)
                    ELSE slide
       IN  slide' = [after EXCEPT !.click = [changed |-> after.tiles # slide.tiles,
                                              shuffling |-> slide.isShuffling,
                                              clicked |-> currentPos,
                                              empty |-> slide.emptyIndex]]
    /\ slideFrame

\* shuffle(): up to its first await
slideShuffle ==
    /\ IF slide.isShuffling
       THEN slide' = [slide EXCEPT !.click = NoClick]
       ELSE \E s \in slideShuffleStep([slide EXCEPT !.isShuffling = TRUE, !.at = 0,
                                                    !.click = NoClick]) :
               slide' = s
    /\ slideFrame

\* the 10 ms timer of a suspended shuffle() fires
slideShuffleResume ==
    /\ slide.awaiting
    /\ IF slide.at < SLIDE_ITERATIONS
       THEN \E s \in slideShuffleStep([slide EXCEPT !.click = NoClick]) : slide' = s
       ELSE slide' = [slide EXCEPT !.isShuffling = FALSE, !.awaiting = FALSE, !.at = 0,
                                   !.click = NoClick]
    /\ slideFrame

\* solve(); before createTiles updateTilePosition throws after the sort and
\* before emptyIndex is reset.
slideSolve ==
    /\ LET t == [slide EXCEPT !.tiles = Sorted(slide.tiles), !.click = NoClick]
       IN  slide' = IF slide.loaded THEN [t EXCEPT !.emptyIndex = slideTotalTiles] ELSE t
    /\ slideFrame

SlideInit ==
    /\ slide = [tiles |-> [i \in SlideCells |-> i], emptyIndex |-> slideTotalTiles,
                isShuffling |-> FALSE, loaded |-> FALSE, awaiting |-> FALSE, at |-> 0,
                click |-> NoClick]
    /\ swap = <<>>
    /\ input = <<>>
    /\ AvatarIdle
    /\ RainIdle

SlideNext ==
    \/ slideHandleVideoLoad
    \/ \E originalIndex \in SlideCells : slideHandleTileClick(originalIndex)
    \/ slideShuffle
    \/ slideShuffleResume
    \/ slideSolve

SlideSpec == SlideInit /\ [][SlideNext]_vars

(***************************************************************************)
(* InteractionManager.  input.listeners is the container's listener list:  *)
(* one entry per addEventListener call, holding the event type, the method *)
(* the registered function is bound to, and the identity fn of that        *)
(* function object; input.nextFn numbers the function objects, a new one   *)
(* for every .bind(this).  input.mouse is in units of 0.01;                *)
(* input.dispatched counts the custom events dispatched, input.last names  *)
(* the latest, input.disposals counts the dispose() calls that returned.   *)
(***************************************************************************)
MaxEvents == 4
MaxDisposals == 2

EventTypes == <<"mousemove", "mousedown", "mouseup", "click",
                "touchstart", "touchmove", "touchend">>
Handlers == <<"handleMouseMove", "handleMouseDown", "handleMouseUp", "handleClick",
              "handleTouchStart", "handleTouchMove", "handleTouchEnd">>

\* container.getBoundingClientRect() and the pointer coordinates of an event
ContainerRect == [left |-> 0, top |-> 0, width |-> 800, height |-> 600]
ClientXs == {0, 200, 800}
ClientYs == {0, 600}
TouchCounts == {1, 2}

\* updateMousePosition(clientX, clientY)
normalized(clientX, clientY) ==
    << Trunc((clientX - ContainerRect.left) * 200, ContainerRect.width) - 100,
       100 - Trunc((clientY - ContainerRect.top) * 200, ContainerRect.height) >>

dispatchEvent(s, name) == [s EXCEPT !.dispatched = @ + 1, !.last = name]

\* The body of one bound handler for an event at (clientX, clientY) with
\* the given number of touches.
handle(s, handler, clientX, clientY, touches) ==
    CASE handler = "handleMouseMove" ->
           dispatchEvent([s EXCEPT !.mouse = normalized(clientX, clientY)], "interactionMove")
      [] handler = "handleMouseDown" ->
           dispatchEvent([s EXCEPT !.isMouseDown = TRUE,
                                   !.mouse = normalized(clientX, clientY)], "interactionStart")
      [] handler = "handleMouseUp" ->
           dispatchEvent([s EXCEPT !.isMouseDown = FALSE], "interactionEnd")
      [] handler = "handleClick" ->
           dispatchEvent(s, "interactionClick")
      [] handler = "handleTouchStart" ->
           IF touches = 1
           THEN dispatchEvent([s EXCEPT !.isMouseDown = TRUE,
                                        !.mouse = normalized(clientX, clientY)], "interactionStart")
           ELSE s
      [] handler = "handleTouchMove" ->
           IF touches = 1
           THEN dispatchEvent([s EXCEPT !.mouse = normalized(clientX, clientY)], "interactionMove")
           ELSE s
      [] handler = "handleTouchEnd" ->
           dispatchEvent([s EXCEPT !.isMouseDown = FALSE], "interactionEnd")

\* addEventListener(type, this.handler.bind(this)) for the seven types
setupEventListeners ==
    { [type |-> EventTypes[k], handler |-> Handlers[k], fn |-> k] : k \in 1..7 }

\* removeEventListener(type, fn) removes the entry registered with that very
\* function object, if there is one.
removeEventListener(listeners, type, fn) ==
    { l \in listeners : ~(l.type = type /\ l.fn = fn) }

\* dispose(): seven removeEventListener calls, each with a function object
\* that this.handler.bind(this) has just created.
RECURSIVE removeEach(_, _, _)
removeEach(listeners, nextFn, k) ==
    IF k > 7 THEN listeners
    ELSE removeEach(removeEventListener(listeners, EventTypes[k], nextFn + k - 1), nextFn, k + 1)

dispose(s) ==
    [s EXCEPT !.listeners = removeEach(s.listeners, s.nextFn, 1),
              !.nextFn = @ + 7,
              !.disposals = @ + 1]

inputFrame == UNCHANGED <<avatarVars, rainVars, swap, slide>>

\* The browser delivers an event of one type to the container: the
\* listeners registered for it run.  Each type has at most one listener.
inputEvent(k, clientX, clientY, touches) ==
    /\ input.dispatched < MaxEvents
    /\ LET registered == { l \in input.listeners : l.type = EventTypes[k] }
       IN  input' = IF registered = {} THEN input
                    ELSE handle(input, (CHOOSE l \in registered : TRUE).handler,
                                clientX, clientY, touches)
    /\ inputFrame

inputDispose ==
    /\ input.disposals < MaxDisposals
    /\ input' = dispose(input)
    /\ inputFrame

\* After InteractionManager.create(container, camera)
InputInit ==
    /\ input = [listeners |-> setupEventListeners, nextFn |-> 8, isMouseDown |-> FALSE,
                mouse |-> <<0, 0>>, dispatched |-> 0, last |-> "none", disposals |-> 0]
    /\ swap = <<>>
    /\ slide = <<>>
    /\ AvatarIdle
    /\ RainIdle

InputNext ==
    \/ \E k \in 1..7, clientX \in ClientXs, clientY \in ClientYs, touches \in TouchCounts :
          inputEvent(k, clientX, clientY, touches)
    \/ inputDispose

InputSpec == InputInit /\ [][InputNext]_vars

(***************************************************************************)
(* Claims about AvatarNetworkApp, checked under AvatarSpec                 *)
(***************************************************************************)
Segments == 1..Len(branches)
AxisDirections == {<<1, 0, 0>>, <<0, 1, 0>>, <<-1, 0, 0>>, <<0, -1, 0>>}

\* C2: the number of segments never exceeds MAX_BRANCHES; createBranch calls are
\* rejected only at the cap, and a createBranch call made at the cap leaves the
\* segment list and the mesh list exactly as they were.
C2_PopulationCap ==
    /\ Len(branches) <= MAX_BRANCHES
    /\ Len(branchLines) <= MAX_BRANCHES
    /\ dropped > 0 => Len(branches) = MAX_BRANCHES
    /\ Len(branches) >= MAX_BRANCHES =>
          \A d \in AxisDirections, g \in 0..MAX_GENERATION :
             LET t == createBranch(CurrentAvatar, <<0, 0, 0>>, d, g, 0)
             IN  t.branches = branches /\ t.branchLines = branchLines

\* C2 witness: an operation in which createBranch was called at the cap.
C2_Witness == dropped > 0 /\ Len(branches) = MAX_BRANCHES

\* C3: no segment has a generation above MAX_GENERATION; seeds have generation
\* 0, a child has its parent's generation plus one, and a segment at the limit
\* has no children and never reaches the random draws of branchOut.
C3_GenerationBound ==
    \A i \in Segments :
       /\ branches[i].generation <= MAX_GENERATION
       /\ parentOf[i] = 0 => branches[i].generation = 0
       /\ parentOf[i] # 0 =>
             /\ parentOf[i] < i
             /\ branches[i].generation = branches[parentOf[i]].generation + 1
             /\ branches[parentOf[i]].generation < MAX_GENERATION
       /\ branches[i].generation >= MAX_GENERATION => spawnLog[i].outcome # "draw"

\* C3 witness: a segment at the generation limit completed, branchOut ran for
\* it and returned at the generation guard.
C3_Witness ==
    \E i \in Segments :
       /\ branches[i].generation = MAX_GENERATION
       /\ ~branches[i].isGrowing
       /\ spawnLog[i].calls = 1
       /\ spawnLog[i].outcome = "generation"

C4_LengthInRange ==
    \A i \in Segments :
       /\ 0 <= branches[i].length
       /\ branches[i].length <= branches[i].targetLength
       /\ branches[i].isGrowing <=> branches[i].length < branches[i].targetLength

C4_LengthStep ==
    \A i \in Segments :
       /\ i <= Len(branches')
       /\ branches'[i].length >= branches[i].length
       /\ ~branches[i].isGrowing =>
             ~branches'[i].isGrowing /\ branches'[i].length = branches[i].length

\* C4: in every state 0 <= length <= targetLength and isGrowing holds exactly
\* while length < targetLength; no update call decreases a length, and a
\* segment that stopped growing keeps length = targetLength.
C4_GrowthMonotonic == []C4_LengthInRange /\ [][C4_LengthStep]_vars

\* C4 witness: one segment has completed at its target length while another is
\* part-way through its growth.
C4_Witness ==
    \E i, j \in Segments :
       /\ ~branches[i].isGrowing /\ branches[i].length = branches[i].targetLength
       /\ branches[j].isGrowing /\ branches[j].length > 0

\* C5: every child's start equals its parent's end, the parent being complete
\* (end = start + direction * targetLength).
C5_ChildStartsAtParentEnd ==
    \A i \in Segments :
       parentOf[i] # 0 =>
          /\ branches[i].start =
             PointAt(branches[parentOf[i]].start, branches[parentOf[i]].direction,
                     branches[parentOf[i]].targetLength)
          /\ branches[i].start = branches[parentOf[i]].end

\* C10: branchOut has been invoked for a segment exactly once if it has stopped
\* growing (length = targetLength) and never while it is still growing.
C10_OneSpawnAttempt ==
    \A i \in Segments :
       /\ branches[i].isGrowing => spawnLog[i].calls = 0
       /\ ~branches[i].isGrowing =>
             spawnLog[i].calls = 1 /\ branches[i].length = branches[i].targetLength

\* C10 witness: a seed with targetLength 6 after 0.5 s of 0.25 s ticks, complete,
\* one spawn attempt made, and a later update call has run since.
C10_Witness ==
    /\ elapsedTime = 75
    /\ \E i \in Segments :
          /\ branches[i].generation = 0 /\ branches[i].targetLength = 600
          /\ branches[i].length = 600 /\ ~branches[i].isGrowing
          /\ spawnLog[i].calls = 1
          /\ \E j \in Segments : parentOf[j] = i /\ branches[j].age = 25

C16_Stable == \A i \in Segments : ~branches[i].isGrowing

C16_CountStays == C16_Stable => Len(branches') = Len(branches) /\ C16_Stable'

\* C16: repeated update calls lead to a state from which no segment is growing,
\* and once no segment is growing the segment count no longer changes; this
\* holds as well when the population cap was exhausted on the way.
C16_GrowthStabilizes == <>[]C16_Stable /\ [][C16_CountStays]_vars

\* C16 witness: growth has stopped with the population at the cap, and update
\* has been called again since without changing anything but the ages.
C16_Witness ==
    /\ C16_Stable
    /\ Len(branches) = MAX_BRANCHES
    /\ \A i \in Segments : branches[i].age > 75

\* Segments appended by the step, and those that complete in it.
Appended == (Len(branches) + 1)..Len(branches')
Completing == { p \in Segments : branches[p].isGrowing /\ ~branches'[p].isGrowing }
KidsOf(p) == { j \in Appended : parentOf'[j] = p }

C21_Step ==
    /\ \A j \in Appended : parentOf'[j] \in Completing
    /\ \A p \in Completing :
          /\ branches[p].generation >= MAX_GENERATION => KidsOf(p) = {}
          /\ \/ Cardinality(KidsOf(p)) \in {0, 2, 3, 4, 5}
             \/ /\ Cardinality(KidsOf(p)) < 5
                /\ Len(branches') = MAX_BRANCHES /\ MAX_BRANCHES \in KidsOf(p)
          /\ \A j \in KidsOf(p) :
                /\ branches'[j].generation = branches[p].generation + 1
                /\ branches'[j].length = 0
                /\ branches'[j].isGrowing
    /\ dropped' > 0 => Len(branches') = MAX_BRANCHES
    /\ Cardinality(Completing) = 1 /\ elapsedTime' # elapsedTime =>
          LET n == Cardinality(Appended) + dropped'
          IN  /\ n \in {0, 2, 3, 4, 5}
              /\ Cardinality(Appended) = Min(n, MAX_BRANCHES - Len(branches))

\* C21: a completing segment at the generation limit appends no child; any
\* other one appends none or attempts n in {2, 3, 4, 5} children, each with its
\* generation plus one, length 0 and isGrowing true, and what is appended is
\* min(n, MAX_BRANCHES - current count); nothing else appends a segment.
C21_SpawnRule == [][C21_Step]_vars

\* C21 witness: the last update call appended children of a completed segment
\* and had further createBranch calls cut off by the cap.
C21_Witness ==
    /\ dropped > 0 /\ Len(branches) = MAX_BRANCHES
    /\ \E j \in Segments :
          /\ parentOf[j] # 0 /\ branches[j].age = 0 /\ branches[j].length = 0
          /\ ~branches[parentOf[j]].isGrowing

C22_Step ==
    /\ Len(branches') >= Len(branches)
    /\ \A i \in Segments :
          ~branches[i].isGrowing =>
             /\ ~branches'[i].isGrowing
             /\ branches'[i].start = branches[i].start
             /\ branches'[i].end = branches[i].end
             /\ branches'[i].direction = branches[i].direction
             /\ branches'[i].length = branches[i].length
             /\ branches'[i].targetLength = branches[i].targetLength
             /\ branches'[i].generation = branches[i].generation

\* C22: no update call changes start, end, direction, length, targetLength or
\* generation of a segment that had isGrowing = false when the call began, and
\* no update call shortens the segment list.
C22_FrozenAfterGrowth == [][C22_Step]_vars

\* C22 witness: a seed completed at its target length and has since been
\* visited by two further update calls.
C22_Witness ==
    \E i \in Segments :
       /\ parentOf[i] = 0 /\ ~branches[i].isGrowing
       /\ branches[i].end = PointAt(branches[i].start, branches[i].direction, 600)
       /\ branches[i].age >= 125

MaxGenerationIn(list) ==
    IF Len(list) = 0 THEN 0
    ELSE CHOOSE g \in 0..(MAX_GENERATION + 1) :
            /\ \E i \in 1..Len(list) : list[i].generation = g
            /\ \A i \in 1..Len(list) : list[i].generation <= g

C24_Step ==
    /\ \A j \in Appended :
          /\ branches'[j].length = 0 /\ branches'[j].age = 0 /\ branches'[j].isGrowing
          /\ branches'[j].end = branches'[j].start
    /\ MaxGenerationIn(branches') <= MaxGenerationIn(branches) + 1

\* C24: a segment appended during an update call still has length 0, age 0 and
\* isGrowing = true when the call returns, and the highest generation present
\* rises by at most one per call.
C24_NoInTickRecursion == [][C24_Step]_vars

\* C24 witness: a single update call of 0.5 s completed the seeds and appended
\* their children, which are untouched.
C24_Witness ==
    /\ elapsedTime = 50
    /\ \E j \in Segments :
          /\ parentOf[j] # 0
          /\ branches[j].start = branches[parentOf[j]].start
          /\ branches[j].length = 0 /\ branches[j].age = 0 /\ branches[j].isGrowing

\* C26: there are as many meshes as segments, and the mesh at index i is the
\* one of segment i: the tube last built for it (its generation's radius, its
\* length's tessellation), or the initial tube if the segment was never visited.
C26_MeshAlignment ==
    /\ Len(branchLines) = Len(branches)
    /\ \A i \in Segments :
          branchLines[i] = IF branches[i].length > 0
                           THEN RebuiltMesh(branches[i])
                           ELSE [tubularSegments |-> 2, radius |-> TUBE_RADIUS]

\* C26 witness: the cap has rejected createBranch calls, and segments of
\* different generations, visited and not yet visited, each have their mesh.
C26_Witness ==
    /\ dropped > 0
    /\ \E i, j, k \in Segments :
          /\ branches[i].generation = 0 /\ branches[i].length > 0
          /\ branches[j].generation = 1 /\ branches[j].length > 0
          /\ branches[k].length = 0

\* C25: the radius of every tube rebuilt for a growing segment is strictly
\* positive, for every generation 0..25 (checked under TubeSpec).
C25_PositiveTubeRadius ==
    \A i \in Segments :
       branches[i].length > 0 => branchLines[i].radius > 0

\* C13: the delta handed to AvatarNetworkApp.update in a frame (the amount
\* elapsedTime advances by) is at most the 0.1 s of the particle engine's clamp.
C13_GrowthDeltaClamped == [][elapsedTime' - elapsedTime <= DELTA_CAP]_vars

(***************************************************************************)
(* Claims about RainApp, checked under RainSpec                            *)
(***************************************************************************)
\* C23: every polyline of triggerLightning has exactly 21 points, which fit
\* the 50-point buffer; y descends from 15 to -15 in equal steps; and at every
\* stored point the lateral drift |x - startX| is at most 5.
C23_BoundedDrift ==
    /\ bolt.points = bolt.i + 1
    /\ bolt.points <= BOLT_BUFFER
    /\ bolt.currentY = BOLT_START_Y - bolt.i * stepY
    /\ bolt.i = BOLT_SEGMENTS => bolt.currentY = BOLT_END_Y
    /\ bolt.stored # 0 => bolt.stored = BOLT_SEGMENTS + 1 /\ bolt.stored = triggerLightning
    /\ Abs(bolt.currentX - bolt.startX) <= DRIFT_LIMIT

\* A finished polyline whose last point was pulled back toward startX.
C23_Witness ==
    /\ bolt.stored = BOLT_SEGMENTS + 1
    /\ bolt.pulled
    /\ bolt.currentX # bolt.startX

\* C28: under every interleaving of tile clicks, shuffle() and solve(), the
\* success message is displayed only when the tiles are in solved order.
C28_MessageOnlyWhenSolved ==
    swap.message => \A i \in SwapCells : swap.tiles[i] = i

\* C29: in every state reachable by tile clicks, the awaited steps of
\* shuffle() and solve(), tiles is a permutation of the pieces and
\* tiles[emptyIndex] is the empty piece; and a click changes the arrangement
\* only when no shuffle is in progress and the clicked tile is orthogonally
\* adjacent to the empty cell.
C29_SlideConsistent ==
    /\ {slide.tiles[i] : i \in SlideCells} = SlideCells
    /\ slide.tiles[slide.emptyIndex] = slideTotalTiles
    /\ slide.click.changed =>
          /\ ~slide.click.shuffling
          /\ \/ /\ Row(slide.click.clicked) = Row(slide.click.empty)
                /\ Abs(Col(slide.click.clicked) - Col(slide.click.empty)) = 1
             \/ /\ Col(slide.click.clicked) = Col(slide.click.empty)
                /\ Abs(Row(slide.click.clicked) - Row(slide.click.empty)) = 1

\* C30: after dispose() has returned, a mouse or touch event on the container
\* dispatches no interaction custom event and changes neither isMouseDown nor
\* the stored mouse position.
C30_DisposeDetaches ==
    [][input.disposals > 0 =>
         /\ input'.dispatched = input.dispatched
         /\ input'.isMouseDown = input.isMouseDown
         /\ input'.mouse = input.mouse]_vars

\* C27: once stop() has returned, no update(delta) call is executed until
\* start() is called again, however many times start() was called before.
C27_StopStops ==
    [][loop.stopped /\ loop'.stopped => rainLog'.updates = rainLog.updates]_vars

Floor == -(RAIN_RANGE_Y \div 2)
Top == RAIN_RANGE_Y \div 2

\* C1: whenever update has returned, every particle's stored y is at or above
\* the floor -RAIN_RANGE_Y / 2.
C1_RecyclingFloor == \A i \in Particles : positions[i][2] >= Floor

\* C1 witness: a particle whose integrated y fell below the floor was reset to
\* the top inside the last update call.
C1_Witness ==
    \E i \in Particles : rainLog.recycled[i] /\ positions[i][2] = Top

\* C6: a particle reflected in the last update call is, when the call returns,
\* not inside the sphere of radius UMBRELLA_RADIUS around the pointer.
C6_NonPenetration ==
    \A i \in Particles :
       rainLog.reflected[i] =>
          ~InsideUmbrella(positions[i][1] - rainLog.pointer[1],
                          positions[i][2] - rainLog.pointer[2],
                          positions[i][3] - rainLog.pointer[3])

\* C6 witness: a particle was reflected in the last update call and was not
\* recycled in it, the call having run with delta = 0.1.
C6_Witness ==
    \E i \in Particles :
       rainLog.reflected[i] /\ ~rainLog.recycled[i] /\ rainLog.delta = DELTA_CAP

\* C7 as stated: every particle's y stays within [-H/2, +H/2 + epsilon].
C7_HeightBand ==
    \A i \in Particles :
       positions[i][2] >= Floor /\ positions[i][2] <= Top + PUSH_MARGIN

\* C7 as amended: every particle's y is at or above the floor, and at or below
\* the top band as long as the particle has not been reflected off the pointer
\* sphere since it was last initialised or recycled.
C7_HeightBandUnlessDeflected ==
    \A i \in Particles :
       /\ positions[i][2] >= Floor
       /\ ~rainLog.deflected[i] => positions[i][2] <= Top

\* C7 witness: a particle has fallen from the top band without being reflected.
C7_Witness ==
    \E i \in Particles :
       /\ ~rainLog.deflected[i] /\ rainLog.updates > 0
       /\ positions[i][2] < Top /\ positions[i][2] > Floor
       /\ mouseWorldPos # FarAway

\* C8 as stated: the update call in which the timer expires returns with a
\* non-empty polyline and lightningIntensity = 1.0.
C8_FireFullIntensity ==
    rainLog.fired => drawRange > 0 /\ lightningIntensity = 100

\* C8 as amended: the update call in which the timer expires returns with a
\* polyline of segments + 1 points and lightningIntensity = 1.0 - 3.0 * delta
\* (the fade of the same call is already applied), which is also the opacity.
C8_FireFadesAtOnce ==
    rainLog.fired =>
       /\ drawRange = BOLT_SEGMENTS + 1
       /\ lightningIntensity = 100 - FADE_SPEED * rainLog.delta
       /\ lightningIntensity > 0
       /\ opacity = lightningIntensity

\* C8 witness: the last update call fired the lightning.
C8_Witness == rainLog.fired /\ rainLog.delta = DELTA_CAP

C11_NoHorizontalGain ==
    \A i \in Particles :
       ~rainLog'.reflected[i] =>
          /\ Abs(velocities'[i][1]) <= Abs(velocities[i][1])
          /\ Abs(velocities'[i][3]) <= Abs(velocities[i][3])

\* C11: in every update call in which a particle undergoes no collision
\* response, |vx| and |vz| of that particle do not increase.
C11_EnergyNonExplosion == [][C11_NoHorizontalGain]_vars

\* C11 witness: a particle that carries horizontal speed from an earlier
\* reflection has gone through an update call without collision or recycling.
C11_Witness ==
    \E i \in Particles :
       /\ rainLog.updates > 0
       /\ ~rainLog.reflected[i] /\ ~rainLog.recycled[i]
       /\ rainLog.deflected[i]
       /\ velocities[i][1] # 0

\* C12: the delta RainApp.update ran with is at most 0.1 s, whatever the clock
\* reported for the frame.
C12_DeltaClamped ==
    /\ rainLog.delta <= DELTA_CAP
    /\ rainLog.updates > 0 => rainLog.delta = Min(clockDelta, DELTA_CAP)

\* C12 witness: update has run in a frame for which the clock reported more
\* than 0.1 s.
C12_Witness ==
    rainLog.updates > 0 /\ clockDelta > DELTA_CAP /\ rainLog.delta = DELTA_CAP

\* C14: every update call that fires the lightning was entered with
\* lightningIntensity = 0 (no discharge starts while an earlier one is still
\* fading).
C14_SingleDischarge ==
    rainLog.fired => rainLog.entryIntensity = 0

\* C14 witness: a second discharge has fired, after the first one faded out.
C14_Witness ==
    rainLog.fired /\ rainLog.fires = 2 /\ rainLog.entryIntensity = 0

C15_RearmOnlyAtZero ==
    /\ lightningTimer' > lightningTimer => lightningIntensity' = 0
    /\ lightningIntensity > 0 /\ lightningIntensity' > 0 => lightningTimer' = lightningTimer

\* C15 as stated: the timer is rearmed only in a step that ends with the
\* intensity at zero, and the countdown does not run while a discharge fades.
C15_RearmAfterFade == [][C15_RearmOnlyAtZero]_vars

C15_RearmStep ==
    rainLog'.updates # rainLog.updates =>
       IF lightningTimer - rainLog'.delta <= 0
       THEN /\ rainLog'.fired
            /\ lightningTimer' >= 200 /\ lightningTimer' < 700
            /\ lightningIntensity' > 0
       ELSE /\ ~rainLog'.fired
            /\ lightningTimer' = lightningTimer - rainLog'.delta

\* C15 as amended: the timer is rearmed with an interval in [2, 7) s in the
\* very update call that fires the discharge (which returns with intensity
\* still above zero), and in every other call, fading or not, the countdown
\* runs down by delta.
C15_RearmAtFire == [][C15_RearmStep]_vars

\* C15 witness: a discharge is fading and the countdown to the next one has
\* already run down by two frames.
C15_Witness ==
    /\ rainLog.fires > 0 /\ ~rainLog.fired
    /\ lightningIntensity > 0
    /\ lightningTimer = 200 - 2 * rainLog.delta

\* The velocity particle i enters the collision step with: gravity applied.
Falling(i, delta) ==
    <<velocities[i][1], velocities[i][2] - GRAVITY * delta, velocities[i][3]>>

\* The three conditions of the deflection, on the offset d = p - m itself:
\* |d|^2 < radius^2 (strict), d.y > 0, and v . d < 0.
Deflects(p, v, m) ==
    LET dx == p[1] - m[1]
        dy == p[2] - m[2]
        dz == p[3] - m[3]
    IN  /\ Abs(dx) < UMBRELLA_RADIUS /\ Abs(dy) < UMBRELLA_RADIUS /\ Abs(dz) < UMBRELLA_RADIUS
        /\ dx * dx + dy * dy + dz * dz < UMBRELLA_RADIUS * UMBRELLA_RADIUS
        /\ dy > 0
        /\ v[1] * dx + v[2] * dy + v[3] * dz < 0

\* What gravity, drag and integration alone store for a particle at p entering
\* the collision step with velocity v.
FreeFall(p, v, delta) ==
    LET w == <<drag(v[1]), v[2], drag(v[3])>>
    IN  [vel |-> w,
         pos |-> <<advance(p[1], w[1], delta), advance(p[2], w[2], delta),
                   advance(p[3], w[3], delta)>>]

C17_Step ==
    rainLog'.updates # rainLog.updates =>
       \A i \in Particles :
          LET v == Falling(i, rainLog'.delta)
              hit == Deflects(positions[i], v, mouseWorldPos)
              free == FreeFall(positions[i], v, rainLog'.delta)
          IN  /\ rainLog'.reflected[i] <=> hit
              /\ ~rainLog'.recycled[i] =>
                    (hit <=> ~(velocities'[i] = free.vel /\ positions'[i] = free.pos))

\* C17: in every update call the collision step changes a particle's velocity
\* or position exactly when the particle is strictly inside the pointer
\* sphere, in its upper half, and moving inward; in every other case the call
\* stores what gravity, drag and integration alone produce.
C17_HemisphereInwardOnly == [][C17_Step]_vars

\* Where a particle that was neither reflected nor recycled in the last update
\* call stood when that call began.
Before(i) ==
    <<positions[i][1] - Trunc(velocities[i][1] * rainLog.delta, 100),
      positions[i][2] - Trunc(velocities[i][2] * rainLog.delta, 100),
      positions[i][3] - Trunc(velocities[i][3] * rainLog.delta, 100)>>

\* C17 witness: in the last update call a particle stood strictly inside the
\* pointer sphere, in its lower half, and the call left it unreflected.
C17_Witness ==
    \E i \in Particles :
       /\ rainLog.updates > 0
       /\ ~rainLog.reflected[i] /\ ~rainLog.recycled[i]
       /\ InsideUmbrella(Before(i)[1] - rainLog.pointer[1],
                         Before(i)[2] - rainLog.pointer[2],
                         Before(i)[3] - rainLog.pointer[3])
       /\ Before(i)[2] < rainLog.pointer[2]

C18_Step ==
    rainLog'.updates # rainLog.updates =>
       \A i \in Particles :
          positions[i] = mouseWorldPos =>
             LET free == FreeFall(positions[i], Falling(i, rainLog'.delta), rainLog'.delta)
             IN  /\ ~rainLog'.reflected[i]
                 /\ positions'[i] \in Int \X Int \X Int
                 /\ velocities'[i] \in Int \X Int \X Int
                 /\ ~rainLog'.recycled[i] =>
                       velocities'[i] = free.vel /\ positions'[i] = free.pos

\* C18: a particle that stands exactly on the pointer centre when update
\* begins is not reflected in that call; what the call stores for it are the
\* numbers gravity, drag and integration alone produce.
C18_ZeroDistanceSkipped == [][C18_Step]_vars

\* C18 witness: the last update call began with a particle exactly on the
\* pointer centre and moved it on by free fall.
C18_Witness ==
    \E i \in Particles :
       /\ rainLog.updates > 0
       /\ ~rainLog.reflected[i] /\ ~rainLog.recycled[i]
       /\ Before(i) = rainLog.pointer

C19_Step ==
    rainLog'.updates # rainLog.updates =>
       /\ DOMAIN positions' = Particles
       /\ DOMAIN velocities' = Particles
       /\ \A i \in Particles :
             LET free == FreeFall(positions[i], Falling(i, rainLog'.delta), rainLog'.delta)
             IN  /\ ~rainLog'.reflected[i] =>
                       (rainLog'.recycled[i] <=> free.pos[2] < -(RAIN_RANGE_Y \div 2))
                 /\ rainLog'.recycled[i] =>
                       /\ positions'[i][2] = RAIN_RANGE_Y \div 2
                       /\ Abs(positions'[i][1]) <= RAIN_RANGE_X \div 2
                       /\ Abs(positions'[i][3]) <= RAIN_RANGE_Z \div 2
                       /\ velocities'[i][1] = 0 /\ velocities'[i][3] = 0
                       /\ velocities'[i][2] >= -1000 /\ velocities'[i][2] <= -500
                 /\ ~rainLog'.recycled[i] =>
                       /\ positions'[i][2] >= -(RAIN_RANGE_Y \div 2)
                       /\ ~rainLog'.reflected[i] =>
                             positions'[i] = free.pos /\ velocities'[i] = free.vel

C20_Step ==
    rainLog'.updates # rainLog.updates =>
       \A i \in Particles :
          ~rainLog'.reflected[i] /\ ~rainLog'.recycled[i] =>
             LET d == rainLog'.delta
             IN  /\ velocities'[i][2] = velocities[i][2] - GRAVITY * d
                 /\ velocities'[i][1] = Trunc(99 * velocities[i][1], 100)
                 /\ velocities'[i][3] = Trunc(99 * velocities[i][3], 100)
                 /\ \A k \in 1..3 :
                       positions'[i][k] = positions[i][k] + Trunc(velocities'[i][k] * d, 100)
                 /\ velocities[i][1] = 0 /\ velocities[i][3] = 0 =>
                       positions'[i][1] = positions[i][1] /\ positions'[i][3] = positions[i][3]

\* y0 - GRAVITY * delta^2 * n * (n + 1) / 2 after n calls from rest at the top,
\* to within the n roundings of the fixed-point integration (all terms times 200).
C20_ClosedForm ==
    \A i \in Particles :
       LET n == rainLog.updates
           d == rainLog.delta
       IN  Abs(200 * (RAIN_RANGE_Y \div 2 - positions[i][2]) - GRAVITY * d * d * n * (n + 1))
              <= 200 * n

\* C20: a particle that neither collides nor is recycled gets vy - GRAVITY *
\* delta, 0.99 vx, 0.99 vz (vy undamped) and then position + velocity * delta
\* with the updated velocity; started at rest in y, its y after n calls is
\* y0 - GRAVITY * delta^2 * n (n + 1) / 2, and with vx = vz = 0 its x and z stay.
C20_FreeFall == []C20_ClosedForm /\ [][C20_Step]_vars

\* C20 witness: twenty calls of 0.1 s after starting at rest at y = 15 with
\* vx = vz = 0, a particle is at y = 15 - 5 * 0.01 * 210 = 4.5.
C20_Witness ==
    \E i \in Particles :
       /\ rainLog.updates = 20 /\ rainLog.delta = 10
       /\ positions[i][2] = 450
       /\ velocities[i] = <<0, -1000, 0>>

====
